---- MODULE Spec2Model ----
(***************************************************************************)
(* A state-machine model of scripts/eval.py: the module-level set-up       *)
(* (argument parsing, experiment directory, logging), main() and infer().  *)
(* The external collaborators (torch, the model, the dataset pipeline,     *)
(* tensorboardX) are opaque: a call either returns or raises, and what it  *)
(* returns is an input of the run.                                         *)
(***************************************************************************)
EXTENDS Integers, Sequences, FiniteSets

(* ------------------------------------------------------------------ *)
(* Bounds of the model                                                 *)
(* ------------------------------------------------------------------ *)
\* The largest value given for --epochs.
MaxEpochs == 2
\* The largest number of batches the validation queue yields.
MaxBatches == 2

\* Values a batch size inputs.size(0), a per-batch loss, a per-batch top-k
\* precision and one forward pass's elapsed time (toc - tic) take in the
\* model.
BatchSizes == {1, 2}
LossValues == {1, 2}
PrecValues == {0, 100}
DtValues == {1, 2}
\* The values of --report_freq and --epochs in the runs that vary the queue.
InferReportFreqTokens == {"2", "100"}
InferEpochTokens == {[sign |-> "", digits |-> <<2>>]}

(* ------------------------------------------------------------------ *)
(* Program constants                                                   *)
(* ------------------------------------------------------------------ *)
NUM_CLASSES == 1000
DefaultRegime == TRUE
DefaultGpu == 0
DefaultSeed == 5
DefaultGraphTxt == "ws_4_075_conv"
DefaultBaseChannels == 78
DefaultOutputChannels == 1280

(* ------------------------------------------------------------------ *)
(* Exact rational arithmetic standing for Python's floats              *)
(* ------------------------------------------------------------------ *)
Rat(n, d) == [num |-> n, den |-> d]
RatOfInt(n) == Rat(n, 1)
RatAdd(a, b) == Rat(a.num * b.den + b.num * a.den, a.den * b.den)
RatMul(a, b) == Rat(a.num * b.num, a.den * b.den)
RatDivInt(a, n) == Rat(a.num, a.den * n)
RatEq(a, b) == a.num * b.den = b.num * a.den

Abs(n) == IF n < 0 THEN -n ELSE n

(* ------------------------------------------------------------------ *)
(* Command-line tokens and argparse's conversions                      *)
(* ------------------------------------------------------------------ *)
\* An option that is not given on the command line.
Absent == "<absent>"

\* type=bool: argparse calls bool(token); a Python string is falsy only
\* when it is empty.
PyBool(token) == token # ""

\* type=int on a decimal token, a sign and a sequence of digits.
RECURSIVE DigitsValue(_)
DigitsValue(ds) ==
    IF ds = <<>> THEN 0
    ELSE 10 * DigitsValue(SubSeq(ds, 1, Len(ds) - 1)) + ds[Len(ds)]
PyInt(token) ==
    IF token.sign = "-" THEN -DigitsValue(token.digits)
    ELSE DigitsValue(token.digits)

\* type=float: float(token) is a finite float num/den or nan.
Fin(n, d) == [kind |-> "fin", num |-> n, den |-> d]
NaN == [kind |-> "nan", num |-> 0, den |-> 0]
PyFloat(token) ==
    CASE token = "0" -> Fin(0, 1)
      [] token = "1" -> Fin(1, 1)
      [] token = "2" -> Fin(2, 1)
      [] token = "2.5" -> Fin(5, 2)
      [] token = "-2" -> Fin(-2, 1)
      [] token = "100" -> Fin(100, 1)
      [] token = "nan" -> NaN

ParseRegime(token) == IF token = Absent THEN DefaultRegime ELSE PyBool(token)

\* parser.parse_args() on the options the run was given.
ParsedArgs(av) ==
    [parsed |-> TRUE,
     regime |-> ParseRegime(av.regime),
     epochs |-> PyInt(av.epochs),
     report_freq |-> PyFloat(av.report_freq),
     gpu |-> DefaultGpu,
     seed |-> DefaultSeed,
     graph_txt |-> DefaultGraphTxt,
     base_channels |-> DefaultBaseChannels,
     output_channels |-> DefaultOutputChannels]

NoArgs ==
    [parsed |-> FALSE, regime |-> DefaultRegime, epochs |-> 0,
     report_freq |-> Fin(100, 1), gpu |-> DefaultGpu, seed |-> DefaultSeed,
     graph_txt |-> DefaultGraphTxt, base_channels |-> DefaultBaseChannels,
     output_channels |-> DefaultOutputChannels]

(* ------------------------------------------------------------------ *)
(* Python's step % report_freq                                         *)
(* ------------------------------------------------------------------ *)
\* int % float raises ZeroDivisionError when the divisor is 0.0.
ModRaises(rf) == rf.kind = "fin" /\ rf.num = 0

\* step % rf == 0 for a step >= 0: fmod is exact, so for a finite non-zero
\* divisor the remainder is zero exactly when step is an integer multiple
\* of it; step % nan is nan, which equals nothing.
ModIsZero(step, rf) ==
    CASE rf.kind = "nan" -> FALSE
      [] OTHER -> (step * rf.den) % Abs(rf.num) = 0

(* ------------------------------------------------------------------ *)
(* The regime's graph files                                            *)
(* ------------------------------------------------------------------ *)
\* The two branches of the regime test exchanged.
GraphStagesSwapped(regime) == IF regime THEN <<2, 3, 4, 5>> ELSE <<3, 4, 5>>
GraphStages(regime) == IF regime THEN <<3, 4, 5>> ELSE <<2, 3, 4, 5>>
GraphFile(graph_txt, stage) == [prefix |-> graph_txt, stage |-> stage, ext |-> ".txt"]

(* ------------------------------------------------------------------ *)
(* utils.AvgrageMeter                                                  *)
(* ------------------------------------------------------------------ *)
NewMeter == [sum |-> RatOfInt(0), cnt |-> 0, avg |-> RatOfInt(0)]
MeterUpdate(m, val, n) ==
    LET s == RatAdd(m.sum, RatMul(val, RatOfInt(n)))
        c == m.cnt + n
    IN [sum |-> s, cnt |-> c, avg |-> RatDivInt(s, c)]
FreshMeters == [objs |-> NewMeter, top1 |-> NewMeter, top5 |-> NewMeter, speed |-> NewMeter]

\* Every update weighted as a single sample.
BatchSizeOne(batch) == 1
\* n = inputs.size(0)
BatchSize(batch) == batch.n

(* ------------------------------------------------------------------ *)
(* State                                                               *)
(* ------------------------------------------------------------------ *)
VARIABLES
    argv,            \* the command line the process was started with
    cuda_available,  \* what torch.cuda.is_available() answers
    dataset,         \* the validation batches preprocess_imagenet will hand out
    pc,              \* the statement the process is at
    args,            \* the parsed namespace
    graph_info_dicts,\* the graph infos read so far, in order
    model,           \* the instantiated network
    test_queue,      \* the validation queue main holds
    writer,          \* the SummaryWriter: "none", "open" or "closed"
    epoch,           \* main's loop variable
    step,            \* infer's enumerate index
    meters,          \* infer's four AvgrageMeters
    elapsed,         \* the forward-pass time spent in the current pass
    ret,             \* what the last infer call returned
    events,          \* everything the process did, in order
    exit_status      \* -1 while running, then the exit status

vars == <<argv, cuda_available, dataset, pc, args, graph_info_dicts, model,
          test_queue, writer, epoch, step, meters, elapsed, ret, events,
          exit_status>>

NoVal == [none |-> TRUE]
Ev(kind, e, s, v) == [ev |-> kind, epoch |-> e, step |-> s, val |-> v]
Emit(seq) == events' = events \o seq

NoModel == [built |-> FALSE, regime |-> TRUE, graphs |-> <<>>, training |-> TRUE]
NoRet == [valid |-> FALSE, acc |-> RatOfInt(0), obj |-> RatOfInt(0), speed |-> RatOfInt(0)]

(* ------------------------------------------------------------------ *)
(* Inputs                                                              *)
(* ------------------------------------------------------------------ *)
Batches ==
    {b \in [n : BatchSizes, loss : LossValues, prec1 : PrecValues, prec5 : PrecValues] :
        b.prec1 <= b.prec5}

RECURSIVE SeqsUpTo(_, _)
SeqsUpTo(S, k) ==
    IF k = 0 THEN {<<>>}
    ELSE LET shorter == SeqsUpTo(S, k - 1)
         IN shorter \cup {Append(q, x) : q \in {r \in shorter : Len(r) = k - 1}, x \in S}

RegimeTokens == {Absent, "True", "False", ""}
EpochTokens ==
    {[sign |-> "", digits |-> <<d>>] : d \in 0..MaxEpochs}
        \cup {[sign |-> "-", digits |-> <<1>>]}
ReportFreqTokens == {"0", "1", "2", "2.5", "-2", "100", "nan"}

InitWith(regimes, epochss, freqs, datasets) ==
    /\ argv \in [regime : regimes, epochs : epochss, report_freq : freqs]
    /\ cuda_available \in BOOLEAN
    /\ dataset \in datasets
    /\ pc = "parse_args"
    /\ args = NoArgs
    /\ graph_info_dicts = <<>>
    /\ model = NoModel
    /\ test_queue = <<>>
    /\ writer = "none"
    /\ epoch = 0
    /\ step = 0
    /\ meters = FreshMeters
    /\ elapsed = 0
    /\ ret = NoRet
    /\ events = <<>>
    /\ exit_status = -1

(* ------------------------------------------------------------------ *)
(* Module level: lines 19-41                                           *)
(* ------------------------------------------------------------------ *)
ParseArgs ==
    /\ pc = "parse_args"
    /\ args' = ParsedArgs(argv)
    /\ Emit(<<Ev("parse_args", -1, -1, NoVal)>>)
    /\ pc' = "setup_logging"
    /\ UNCHANGED <<argv, cuda_available, dataset, graph_info_dicts, model, test_queue,
                   writer, epoch, step, meters, elapsed, ret, exit_status>>

SetupLogging ==
    /\ pc = "setup_logging"
    /\ Emit(<<Ev("create_exp_dir", -1, -1, NoVal), Ev("logging_setup", -1, -1, NoVal)>>)
    /\ pc' = "main"
    /\ UNCHANGED <<argv, cuda_available, dataset, args, graph_info_dicts, model,
                   test_queue, writer, epoch, step, meters, elapsed, ret, exit_status>>

(* ------------------------------------------------------------------ *)
(* main                                                                *)
(* ------------------------------------------------------------------ *)
\* The log line without the sys.exit(1): main goes on.
ExitNoGpuWithoutExit ==
    /\ pc = "main"
    /\ ~cuda_available
    /\ Emit(<<Ev("log_no_gpu", -1, -1, NoVal),
              Ev("seed_numpy", -1, -1, [seed |-> args.seed]),
              Ev("set_device", -1, -1, [gpu |-> args.gpu]),
              Ev("seed_torch", -1, -1, [seed |-> args.seed]),
              Ev("seed_cuda", -1, -1, [seed |-> args.seed]),
              Ev("log_gpu_device", -1, -1, [gpu |-> args.gpu]),
              Ev("log_regime", -1, -1, [regime |-> args.regime]),
              Ev("log_args", -1, -1, NoVal)>>)
    /\ pc' = "read_graph"
    /\ UNCHANGED <<argv, cuda_available, dataset, args, graph_info_dicts, model,
                   test_queue, writer, epoch, step, meters, elapsed, ret, exit_status>>

\* if not torch.cuda.is_available(): log and sys.exit(1)
ExitNoGpu ==
    /\ pc = "main"
    /\ ~cuda_available
    /\ Emit(<<Ev("log_no_gpu", -1, -1, NoVal), Ev("exit", -1, -1, NoVal)>>)
    /\ exit_status' = 1
    /\ pc' = "exited"
    /\ UNCHANGED <<argv, cuda_available, dataset, args, graph_info_dicts, model,
                   test_queue, writer, epoch, step, meters, elapsed, ret>>

\* The device selected again after the seeds.
SeedAndDeviceTwice ==
    /\ pc = "main"
    /\ cuda_available
    /\ Emit(<<Ev("seed_numpy", -1, -1, [seed |-> args.seed]),
              Ev("set_device", -1, -1, [gpu |-> args.gpu]),
              Ev("seed_torch", -1, -1, [seed |-> args.seed]),
              Ev("seed_cuda", -1, -1, [seed |-> args.seed]),
              Ev("set_device", -1, -1, [gpu |-> args.gpu]),
              Ev("log_gpu_device", -1, -1, [gpu |-> args.gpu]),
              Ev("log_regime", -1, -1, [regime |-> args.regime]),
              Ev("log_args", -1, -1, NoVal)>>)
    /\ pc' = "read_graph"
    /\ UNCHANGED <<argv, cuda_available, dataset, args, graph_info_dicts, model,
                   test_queue, writer, epoch, step, meters, elapsed, ret, exit_status>>

\* the seeds, the device selection and the three log lines
SeedAndDevice ==
    /\ pc = "main"
    /\ cuda_available
    /\ Emit(<<Ev("seed_numpy", -1, -1, [seed |-> args.seed]),
              Ev("set_device", -1, -1, [gpu |-> args.gpu]),
              Ev("seed_torch", -1, -1, [seed |-> args.seed]),
              Ev("seed_cuda", -1, -1, [seed |-> args.seed]),
              Ev("log_gpu_device", -1, -1, [gpu |-> args.gpu]),
              Ev("log_regime", -1, -1, [regime |-> args.regime]),
              Ev("log_args", -1, -1, NoVal)>>)
    /\ pc' = "read_graph"
    /\ UNCHANGED <<argv, cuda_available, dataset, args, graph_info_dicts, model,
                   test_queue, writer, epoch, step, meters, elapsed, ret, exit_status>>

\* one read_graph_info call: the next file of the regime's list
ReadGraphInfo ==
    /\ pc = "read_graph"
    /\ Len(graph_info_dicts) < Len(GraphStages(args.regime))
    /\ LET file == GraphFile(args.graph_txt,
                             GraphStages(args.regime)[Len(graph_info_dicts) + 1])
       IN /\ graph_info_dicts' = Append(graph_info_dicts, [read_from |-> file])
          /\ Emit(<<Ev("read_graph_info", -1, -1, file)>>)
    /\ UNCHANGED <<argv, cuda_available, dataset, pc, args, model, test_queue, writer,
                   epoch, step, meters, elapsed, ret, exit_status>>

\* writer = SummaryWriter(...); criterion = nn.CrossEntropyLoss().cuda()
CreateWriter ==
    /\ pc = "read_graph"
    /\ Len(graph_info_dicts) = Len(GraphStages(args.regime))
    /\ writer' = "open"
    /\ Emit(<<Ev("summary_writer", -1, -1, NoVal), Ev("criterion", -1, -1, NoVal)>>)
    /\ pc' = "model"
    /\ UNCHANGED <<argv, cuda_available, dataset, args, graph_info_dicts, model,
                   test_queue, epoch, step, meters, elapsed, ret, exit_status>>

\* model = RandomlyWiredNN(...).cuda() and the two log lines about it
BuildModel ==
    /\ pc = "model"
    /\ model' = [built |-> TRUE, regime |-> args.regime, graphs |-> graph_info_dicts,
                 training |-> TRUE]
    /\ Emit(<<Ev("model_init", -1, -1, [regime |-> args.regime, graphs |-> graph_info_dicts,
                                         num_classes |-> NUM_CLASSES]),
              Ev("log_param_size", -1, -1, NoVal),
              Ev("log_flops", -1, -1, NoVal)>>)
    /\ pc' = "data"
    /\ UNCHANGED <<argv, cuda_available, dataset, args, graph_info_dicts, test_queue,
                   writer, epoch, step, meters, elapsed, ret, exit_status>>

\* _, test_queue = preprocess_imagenet(args)
BuildData ==
    /\ pc = "data"
    /\ test_queue' = dataset
    /\ Emit(<<Ev("preprocess_imagenet", -1, -1, NoVal)>>)
    /\ epoch' = 0
    /\ pc' = "loop"
    /\ UNCHANGED <<argv, cuda_available, dataset, args, graph_info_dicts, model, writer,
                   step, meters, elapsed, ret, exit_status>>

\* range(args.epochs + 1): one pass too many.
InferEnterOffByOne ==
    /\ pc = "loop"
    /\ epoch <= args.epochs
    /\ meters' = FreshMeters
    /\ elapsed' = 0
    /\ model' = [model EXCEPT !.training = FALSE]
    /\ step' = 0
    /\ Emit(<<Ev("infer", epoch, -1, NoVal)>>)
    /\ pc' = "infer"
    /\ UNCHANGED <<argv, cuda_available, dataset, args, graph_info_dicts, test_queue,
                   writer, epoch, ret, exit_status>>

\* The four meters created once, outside infer, and never reset.
InferEnterStaleMeters ==
    /\ pc = "loop"
    /\ epoch < args.epochs
    /\ elapsed' = 0
    /\ model' = [model EXCEPT !.training = FALSE]
    /\ step' = 0
    /\ Emit(<<Ev("infer", epoch, -1, NoVal)>>)
    /\ pc' = "infer"
    /\ UNCHANGED <<argv, cuda_available, dataset, args, graph_info_dicts, test_queue,
                   writer, epoch, ret, exit_status, meters>>

\* for epoch in range(args.epochs): the call of infer, up to model.eval()
InferEnter ==
    /\ pc = "loop"
    /\ epoch < args.epochs
    /\ meters' = FreshMeters
    /\ elapsed' = 0
    /\ model' = [model EXCEPT !.training = FALSE]
    /\ step' = 0
    /\ Emit(<<Ev("infer", epoch, -1, NoVal)>>)
    /\ pc' = "infer"
    /\ UNCHANGED <<argv, cuda_available, dataset, args, graph_info_dicts, test_queue,
                   writer, epoch, ret, exit_status>>

\* One iteration of infer's loop: the forward pass, the four meter updates
\* and the report_freq test, which raises on a zero report_freq.
InferBatch ==
    /\ pc = "infer"
    /\ step < Len(test_queue)
    /\ \E dt \in DtValues :
         LET batch == test_queue[step + 1]
             n == BatchSize(batch)
             per_image_speed == Rat(dt, n)
             m == [objs |-> MeterUpdate(meters.objs, RatOfInt(batch.loss), n),
                   top1 |-> MeterUpdate(meters.top1, RatOfInt(batch.prec1), n),
                   top5 |-> MeterUpdate(meters.top5, RatOfInt(batch.prec5), n),
                   speed |-> MeterUpdate(meters.speed, per_image_speed, n)]
             fwd == Ev("forward", epoch, step,
                       [index |-> step + 1, training |-> model.training])
             line == Ev("log_valid", epoch, step,
                        [objs |-> m.objs.avg, top1 |-> m.top1.avg,
                         top5 |-> m.top5.avg, speed |-> m.speed.avg])
         IN /\ meters' = m
            /\ elapsed' = elapsed + dt
            /\ IF ModRaises(args.report_freq)
               THEN /\ Emit(<<fwd, Ev("raise", epoch, step, NoVal)>>)
                    /\ pc' = "crashed"
                    /\ exit_status' = 1
                    /\ step' = step
               ELSE /\ Emit(IF ModIsZero(step, args.report_freq)
                            THEN <<fwd, line>> ELSE <<fwd>>)
                    /\ pc' = pc
                    /\ exit_status' = exit_status
                    /\ step' = step + 1
    /\ UNCHANGED <<argv, cuda_available, dataset, args, graph_info_dicts, model,
                   test_queue, writer, epoch, ret>>

\* return top5.avg, objs.avg, speed.avg
InferReturnTop5 ==
    /\ pc = "infer"
    /\ step = Len(test_queue)
    /\ ret' = [valid |-> TRUE, acc |-> meters.top5.avg, obj |-> meters.objs.avg,
               speed |-> meters.speed.avg]
    /\ Emit(<<Ev("infer_return", epoch, -1,
                 [acc |-> meters.top5.avg, obj |-> meters.objs.avg,
                  speed |-> meters.speed.avg, elapsed |-> elapsed])>>)
    /\ pc' = "report"
    /\ UNCHANGED <<argv, cuda_available, dataset, args, graph_info_dicts, model,
                   test_queue, writer, epoch, step, meters, elapsed, exit_status>>

\* return top1.avg, objs.avg, speed.avg
InferReturn ==
    /\ pc = "infer"
    /\ step = Len(test_queue)
    /\ ret' = [valid |-> TRUE, acc |-> meters.top1.avg, obj |-> meters.objs.avg,
               speed |-> meters.speed.avg]
    /\ Emit(<<Ev("infer_return", epoch, -1,
                 [acc |-> meters.top1.avg, obj |-> meters.objs.avg,
                  speed |-> meters.speed.avg, elapsed |-> elapsed])>>)
    /\ pc' = "report"
    /\ UNCHANGED <<argv, cuda_available, dataset, args, graph_info_dicts, model,
                   test_queue, writer, epoch, step, meters, elapsed, exit_status>>

\* The scalar written before the console lines, with the step one ahead.
ReportEpochScalarFirst ==
    /\ pc = "report"
    /\ Emit(<<Ev("add_scalar", epoch, -1,
                 [tag |-> "val_loss", value |-> ret.obj, global_step |-> epoch + 1]),
              Ev("log_valid_acc", epoch, -1, [value |-> ret.acc]),
              Ev("log_valid_speed", epoch, -1, [value |-> ret.speed])>>)
    /\ epoch' = epoch + 1
    /\ pc' = "loop"
    /\ UNCHANGED <<argv, cuda_available, dataset, args, graph_info_dicts, model,
                   test_queue, writer, step, meters, elapsed, ret, exit_status>>

\* the two console lines and the scalar of one epoch
ReportEpoch ==
    /\ pc = "report"
    /\ Emit(<<Ev("log_valid_acc", epoch, -1, [value |-> ret.acc]),
              Ev("log_valid_speed", epoch, -1, [value |-> ret.speed]),
              Ev("add_scalar", epoch, -1,
                 [tag |-> "val_loss", value |-> ret.obj, global_step |-> epoch])>>)
    /\ epoch' = epoch + 1
    /\ pc' = "loop"
    /\ UNCHANGED <<argv, cuda_available, dataset, args, graph_info_dicts, model,
                   test_queue, writer, step, meters, elapsed, ret, exit_status>>

\* writer.close() and the return of main
CloseWriter ==
    /\ pc = "loop"
    /\ ~(epoch < args.epochs)
    /\ writer' = "closed"
    /\ Emit(<<Ev("close", -1, -1, NoVal)>>)
    /\ exit_status' = 0
    /\ pc' = "done"
    /\ UNCHANGED <<argv, cuda_available, dataset, args, graph_info_dicts, model,
                   test_queue, epoch, step, meters, elapsed, ret>>

\* An external call (read_graph_info, the model constructor, the dataset
\* pipeline, a forward pass) raises; nothing catches it.
RaisePoint ==
    \/ pc = "read_graph" /\ Len(graph_info_dicts) < Len(GraphStages(args.regime))
    \/ pc \in {"model", "data"}
    \/ pc = "infer" /\ step < Len(test_queue)
Raise ==
    /\ RaisePoint
    /\ Emit(<<Ev("raise", -1, -1, NoVal)>>)
    /\ exit_status' = 1
    /\ pc' = "crashed"
    /\ UNCHANGED <<argv, cuda_available, dataset, args, graph_info_dicts, model,
                   test_queue, writer, epoch, step, meters, elapsed, ret>>

Next ==
    \/ ParseArgs
    \/ SetupLogging
    \/ ExitNoGpu
    \/ SeedAndDevice
    \/ ReadGraphInfo
    \/ CreateWriter
    \/ BuildModel
    \/ BuildData
    \/ InferEnter
    \/ InferBatch
    \/ InferReturn
    \/ ReportEpoch
    \/ CloseWriter
    \/ Raise

(* ------------------------------------------------------------------ *)
(* Specifications                                                      *)
(* ------------------------------------------------------------------ *)
\* Every command line, over queues that alternate two kinds of batch.
MainQueue(k) ==
    [i \in 1..k |-> IF i % 2 = 1
                    THEN [n |-> 1, loss |-> 1, prec1 |-> 0, prec5 |-> 100]
                    ELSE [n |-> 2, loss |-> 2, prec1 |-> 100, prec5 |-> 100]]
MainDatasets == {MainQueue(k) : k \in 0..MaxBatches}
Init == InitWith(RegimeTokens, EpochTokens, ReportFreqTokens, MainDatasets)
Spec == Init /\ [][Next]_vars

\* The process keeps running: a call returns or raises.  Termination is
\* checked over the command lines that differ in what the loop does.
LiveInit == InitWith({Absent, ""}, EpochTokens, {"0", "2", "nan"}, MainDatasets)
LiveSpec == LiveInit /\ [][Next]_vars /\ WF_vars(Next)

\* Every queue, over the default regime and two epochs.
InferInit ==
    InitWith({Absent}, InferEpochTokens, InferReportFreqTokens, SeqsUpTo(Batches, MaxBatches))
InferSpec == InferInit /\ [][Next]_vars

Terminated == pc \in {"exited", "done", "crashed"}
TypeOK ==
    /\ pc \in {"parse_args", "setup_logging", "main", "read_graph", "model", "data",
               "loop", "infer", "report", "exited", "done", "crashed"}
    /\ writer \in {"none", "open", "closed"}
    /\ exit_status \in {-1, 0, 1}
    /\ (exit_status # -1) <=> Terminated

(* ------------------------------------------------------------------ *)
(* Reading the record of a run                                         *)
(* ------------------------------------------------------------------ *)
EvIdx(kinds) == {i \in DOMAIN events : events[i].ev \in kinds}
Count(kind) == Cardinality(EvIdx({kind}))
KindsOf(seq) == [i \in DOMAIN seq |-> seq[i].ev]
IsPrefix(s, t) == Len(s) <= Len(t) /\ SubSeq(t, 1, Len(s)) = s
Max(a, b) == IF a < b THEN b ELSE a
Last(seq) == seq[Len(seq)]

\* Sums over the first k batches of a queue.
RECURSIVE WSum(_, _, _)
WSum(q, k, field) == IF k = 0 THEN 0 ELSE WSum(q, k - 1, field) + q[k][field] * q[k].n
RECURSIVE SizeSum(_, _)
SizeSum(q, k) == IF k = 0 THEN 0 ELSE SizeSum(q, k - 1) + q[k].n
WAvg(q, k, field) == Rat(WSum(q, k, field), SizeSum(q, k))

StartupKinds ==
    {"parse_args", "create_exp_dir", "logging_setup", "seed_numpy", "set_device",
     "seed_torch", "seed_cuda", "read_graph_info", "summary_writer", "criterion",
     "model_init", "preprocess_imagenet"}
Startup == SelectSeq(events, LAMBDA e : e.ev \in StartupKinds)
PhaseKinds(regime) ==
    <<"parse_args", "create_exp_dir", "logging_setup", "seed_numpy", "set_device",
      "seed_torch", "seed_cuda">>
    \o [i \in 1..(IF regime THEN 3 ELSE 4) |-> "read_graph_info"]
    \o <<"summary_writer", "criterion", "model_init", "preprocess_imagenet">>

(* ------------------------------------------------------------------ *)
(* Properties                                                          *)
(* ------------------------------------------------------------------ *)

\* C1: when no GPU is available at the start of main, the process logs
\* 'no gpu device available' and exits with status 1; on that path no graph
\* file is read, no model or dataset pipeline is built, no inference pass
\* runs, no val_loss scalar is written, and nothing happens after the exit.
C1_NoGpuExitsEarly ==
    (~cuda_available /\ pc \notin {"parse_args", "setup_logging", "main"}) =>
        /\ pc = "exited"
        /\ exit_status = 1
        /\ KindsOf(events) = <<"parse_args", "create_exp_dir", "logging_setup",
                               "log_no_gpu", "exit">>
        /\ graph_info_dicts = <<>>
        /\ ~model.built
        /\ test_queue = <<>>
        /\ writer = "none"
        /\ Count("read_graph_info") + Count("model_init") + Count("preprocess_imagenet")
             + Count("infer") + Count("forward") + Count("add_scalar") = 0
        /\ ~ENABLED Next
C1_Witness == pc = "exited" /\ ~cuda_available /\ exit_status = 1

\* C2: in every run that reaches the evaluation loop the start-up phases
\* happened exactly once each and in the order parse, logging set-up, seeding
\* with the device selection, graph loading, model, dataset, all before the
\* first inference pass; at every moment what has happened so far is an
\* initial part of that order.
C2_PhaseOrder ==
    /\ IsPrefix(KindsOf(Startup), PhaseKinds(args.regime))
    /\ Count("infer") > 0 =>
         /\ KindsOf(Startup) = PhaseKinds(args.regime)
         /\ \A i \in EvIdx(StartupKinds) : \A j \in EvIdx({"infer", "forward"}) : i < j
         /\ Count("set_device") = 1
C2_Witness == Count("forward") > 0 /\ Count("infer") > 1

\* C3: the graph files read are exactly {graph_txt}3, 4, 5 .txt in that order
\* in the small regime and {graph_txt}2, 3, 4, 5 .txt in that order in the
\* regular regime; the list the model constructor receives has one entry per
\* file read, in the same order.
RegimeFiles(regime, graph_txt) ==
    IF regime
    THEN <<GraphFile(graph_txt, 3), GraphFile(graph_txt, 4), GraphFile(graph_txt, 5)>>
    ELSE <<GraphFile(graph_txt, 2), GraphFile(graph_txt, 3), GraphFile(graph_txt, 4),
           GraphFile(graph_txt, 5)>>
FilesRead == [i \in DOMAIN SelectSeq(events, LAMBDA e : e.ev = "read_graph_info") |->
                 SelectSeq(events, LAMBDA e : e.ev = "read_graph_info")[i].val]
C3_GraphFilesByRegime ==
    /\ IsPrefix(FilesRead, RegimeFiles(args.regime, DefaultGraphTxt))
    /\ model.built =>
         /\ FilesRead = RegimeFiles(args.regime, DefaultGraphTxt)
         /\ model.graphs = [i \in DOMAIN FilesRead |-> [read_from |-> FilesRead[i]]]
         /\ \A i \in EvIdx({"model_init"}) :
              /\ events[i].val.graphs = model.graphs
              /\ events[i].val.regime = args.regime
C3_Witness == model.built /\ ~args.regime /\ Len(FilesRead) = 4

\* C4: the value given for --regime selects the regime as the help text
\* says: "True" the small regime, "False" the regular one.
Denotes(token) == token = "True"
C4_RegimeFlagAsDocumented ==
    (args.parsed /\ argv.regime \in {"True", "False"}) =>
        /\ args.regime = Denotes(argv.regime)
        /\ model.built => Len(model.graphs) = (IF Denotes(argv.regime) THEN 3 ELSE 4)

\* The batches a pass has gone through, as indices into the queue, in order.
PassBatches(e) ==
    LET fw == SelectSeq(events, LAMBDA x : x.ev = "forward" /\ x.epoch = e)
    IN [i \in DOMAIN fw |-> fw[i].val.index]
PassesReturned == Count("infer_return")

\* C5 as stated: a run that returns from main has made exactly args.epochs
\* inference passes.
C5_ExactlyEpochsPasses ==
    pc = "done" => Count("infer") = args.epochs /\ PassesReturned = args.epochs

\* C5, amended: a run that returns from main has made exactly
\* max(args.epochs, 0) inference passes, all over the queue the pipeline
\* handed out and the model that was built; every pass that returned went
\* through every batch of the queue exactly once, in queue order; a pass
\* under way has gone through an initial part of the queue; and the run
\* ends.
C5_PassesSafety ==
    /\ pc = "done" =>
         /\ Count("infer") = Max(args.epochs, 0)
         /\ PassesReturned = Max(args.epochs, 0)
    /\ Count("infer") <= Max(args.epochs, 0)
    /\ pc \in {"loop", "infer", "report", "done"} =>
         /\ test_queue = dataset
         /\ model.built /\ model.graphs = graph_info_dicts
    /\ \A i \in EvIdx({"infer"}) : events[i].epoch = Cardinality({j \in EvIdx({"infer"}) : j < i})
    /\ \A i \in EvIdx({"infer_return"}) :
         PassBatches(events[i].epoch) = [k \in 1..Len(dataset) |-> k]
    /\ pc = "infer" => PassBatches(epoch) = [k \in 1..step |-> k]
C5_PassesAndTermination == [](C5_PassesSafety) /\ <>Terminated
C5_Witness ==
    /\ pc = "done"
    /\ args.epochs > 1
    /\ PassesReturned = args.epochs
    /\ Len(dataset) > 1
    /\ PassBatches(args.epochs - 1) = [k \in 1..Len(dataset) |-> k]

\* C6: within a pass, after the batches 0..k each of the four running
\* averages is sum(v_i * n_i) / sum(n_i) over those batches, the latency
\* average being the forward-pass time spent so far over the images seen so
\* far; what infer returns are these averages over the whole queue.
C6_WeightedAverages ==
    /\ (pc = "infer" /\ step >= 1) =>
         /\ RatEq(meters.objs.avg, WAvg(test_queue, step, "loss"))
         /\ RatEq(meters.top1.avg, WAvg(test_queue, step, "prec1"))
         /\ RatEq(meters.top5.avg, WAvg(test_queue, step, "prec5"))
         /\ RatEq(meters.speed.avg, Rat(elapsed, SizeSum(test_queue, step)))
         /\ \A name \in DOMAIN meters : meters[name].cnt = SizeSum(test_queue, step)
    /\ (pc = "report" /\ Len(test_queue) >= 1) =>
         /\ RatEq(ret.obj, WAvg(test_queue, Len(test_queue), "loss"))
         /\ RatEq(ret.acc, WAvg(test_queue, Len(test_queue), "prec1"))
         /\ RatEq(ret.speed, Rat(elapsed, SizeSum(test_queue, Len(test_queue))))
C6_Witness ==
    /\ pc = "report"
    /\ Len(test_queue) >= 2
    /\ test_queue[1].n # test_queue[2].n
    /\ test_queue[1].loss # test_queue[2].loss
    /\ test_queue[1].prec1 # test_queue[2].prec1

\* What the console shows of pass e.
Reported(e) == \E i \in EvIdx({"add_scalar"}) : events[i].epoch = e
ReturnOf(e) == CHOOSE i \in EvIdx({"infer_return"}) : events[i].epoch = e
WholeAvg(field) == WAvg(dataset, Len(dataset), field)
ShowsTop1(e) ==
    \/ \E i \in EvIdx({"log_valid_acc"}) :
         events[i].epoch = e /\ RatEq(events[i].val.value, WholeAvg("prec1"))
    \/ \E i \in EvIdx({"log_valid"}) :
         events[i].epoch = e /\ RatEq(events[i].val.top1, WholeAvg("prec1"))
ShowsTop5(e) ==
    \E i \in EvIdx({"log_valid"}) :
        events[i].epoch = e /\ RatEq(events[i].val.top5, WholeAvg("prec5"))
ShowsLatency(e) ==
    LET whole == Rat(events[ReturnOf(e)].val.elapsed, SizeSum(dataset, Len(dataset)))
    IN \/ \E i \in EvIdx({"log_valid_speed"}) :
            events[i].epoch = e /\ RatEq(events[i].val.value, whole)
       \/ \E i \in EvIdx({"log_valid"}) :
            events[i].epoch = e /\ RatEq(events[i].val.speed, whole)

\* C7 as stated: for every completed pass the console shows the top-1
\* accuracy, the top-5 accuracy and the per-image latency, each averaged
\* over the whole validation set.
C7_ReportsTop1Top5Latency ==
    \A e \in 0..(Count("add_scalar") - 1) :
        (Reported(e) /\ Len(dataset) >= 1) => ShowsTop1(e) /\ ShowsTop5(e) /\ ShowsLatency(e)

\* C7, amended: for every completed pass over a non-empty queue main logs
\* the top-1 accuracy and the per-image latency, each averaged over the
\* whole validation set, and nothing else of the pass but the val_loss
\* scalar; the top-5 accuracy is shown only by the progress lines, as the
\* running average over the batches gone through so far.
C7_ReportsTop1AndLatency ==
    /\ \A i \in EvIdx({"infer_return"}) :
         (i + 3 <= Len(events) /\ Len(dataset) >= 1) =>
            /\ events[i + 1].ev = "log_valid_acc"
            /\ RatEq(events[i + 1].val.value, WholeAvg("prec1"))
            /\ events[i + 2].ev = "log_valid_speed"
            /\ RatEq(events[i + 2].val.value,
                     Rat(events[i].val.elapsed, SizeSum(dataset, Len(dataset))))
            /\ events[i + 3].ev = "add_scalar"
    /\ \A i \in EvIdx({"log_valid_acc", "log_valid_speed"}) :
         DOMAIN events[i].val = {"value"}
    /\ \A i \in EvIdx({"log_valid"}) :
         /\ RatEq(events[i].val.top5, WAvg(dataset, events[i].step + 1, "prec5"))
         /\ RatEq(events[i].val.top1, WAvg(dataset, events[i].step + 1, "prec1"))
C7_Witness ==
    /\ Reported(0)
    /\ Len(dataset) >= 2
    /\ ~ShowsTop5(0)
    /\ ShowsTop1(0)
    /\ ~RatEq(WholeAvg("prec1"), WholeAvg("prec5"))

IsMultiple(s, rf) ==
    rf.kind = "fin" /\ \E k \in 0..(s * rf.den) : s * rf.den = k * Abs(rf.num)
Logged(e, s) ==
    \E i \in EvIdx({"log_valid"}) : events[i].epoch = e /\ events[i].step = s
ProgressLineOf(i) ==
    /\ i + 1 <= Len(events)
    /\ events[i + 1].ev = "log_valid"
    /\ events[i + 1].epoch = events[i].epoch
    /\ events[i + 1].step = events[i].step
    /\ RatEq(events[i + 1].val.objs, WAvg(dataset, events[i].step + 1, "loss"))
    /\ RatEq(events[i + 1].val.top1, WAvg(dataset, events[i].step + 1, "prec1"))
    /\ RatEq(events[i + 1].val.top5, WAvg(dataset, events[i].step + 1, "prec5"))

\* C9: for whatever value --report_freq was given, a batch gets a progress
\* line exactly when its index is a multiple of report_freq, the first batch
\* of a pass always; the line comes after the batch's meter updates and
\* shows averages that include the batch.
C9_ProgressIffMultiple ==
    \A i \in EvIdx({"forward"}) :
        /\ Logged(events[i].epoch, events[i].step)
             <=> (events[i].step = 0 \/ IsMultiple(events[i].step, args.report_freq))
        /\ Logged(events[i].epoch, events[i].step) => ProgressLineOf(i)

\* The same for the values of report_freq on which step % report_freq is
\* defined and can be zero: every finite value but 0.
ProgressIffMultipleWhenFinite ==
    (args.report_freq.kind = "fin" /\ args.report_freq.num # 0) => C9_ProgressIffMultiple

====
